---- MODULE Spec2Model ----
(***************************************************************************)
(* Interview session lifecycle of hr_agent/server: the /interview/start,   *)
(* /transcribe, /interview/submit and /interview/{id}/results handlers of  *)
(* main.py over the file-backed DataManager of data_manager.py.            *)
(*                                                                         *)
(* Every handler runs in a request slot (Procs).  A slot advances one      *)
(* Store operation (one file read or one file write of DataManager) per    *)
(* step.  Under Spec the server runs NumProcs worker processes over the    *)
(* same data directory, so the Store operations of concurrent requests     *)
(* interleave in every way; under SeqSpec it runs the single worker of     *)
(* main.py, whose handlers never await between Store operations, so one    *)
(* request is in flight at a time.                                         *)
(* GenSpec is the /generate handler alone, applied to every request body   *)
(* and every language model reply of the model.                            *)
(* ScoreSpec is the /scoring/score handler of api/scoring.py alone, and    *)
(* AdminSpec the candidate and admin routers over the SQLite database.     *)
(***************************************************************************)
EXTENDS Integers, Sequences, FiniteSets, TLC

(* ------------------------------ bounds --------------------------------- *)
MaxSessions  == 1      \* sessions that can be created
MaxQuestions == 2      \* longest question list of a session
MaxRequests  == 3      \* requests served in one behaviour
MaxClock     == 1      \* clock seconds 0..MaxClock
NumProcs     == 2      \* request slots (requests in flight at once)
MaxNum       == 21     \* largest num_questions of a /generate request
MaxReplyLines == 2     \* lines of a language model reply
MaxEvalLines == 3      \* lines of an evaluation text of the scoring model
MaxStored    == 1      \* interviews the database holds at start-up

Procs      == 1..NumProcs
SessionIds == 1..MaxSessions
\* question_index is any client integer
IndexRange == (0 - 1)..MaxQuestions
Clock      == 0..MaxClock

(* ------------------------------ values --------------------------------- *)
SkippedText  == "[Question was skipped by the candidate]"
NotFoundText == "[Transcript not found]"
NoResponseText == "[No response provided]"
\* texts the speech-to-text engine returns in this model
TranscribedTexts == {"I led the database migration project"}

\* transcript ids are "<session>_<index>_<second>"; the empty tuple is the
\* absent (None) form field, GhostTid an id no store_transcript ever made
NoTid    == <<>>
GhostTid == <<0, 0, 0>>

\* question lists a client can supply to /interview/start (None is <<>>)
SuppliedLists == { <<>>, <<"  ">>, <<" Q1? ", "  ", "Q2?">> }

VARIABLES
    sessions,      \* data/sessions/*.json:  session_id -> session dict
    transcripts,   \* data/transcripts/*.json: transcript_id -> transcript
    now,           \* wall clock at the latest store_transcript, in seconds
    pc,            \* per request slot: position in its handler
    loc,           \* per request slot: the handler's local variables
    resp,          \* per request slot: the HTTP response once produced
    nreq,          \* requests accepted so far
    acked,         \* (session, index) pairs whose submit was answered 200
    workers,       \* worker processes serving requests
    db             \* the SQLite database: users, interviews, results

vars == <<sessions, transcripts, now, pc, loc, resp, nreq, acked, workers,
         db>>

NoLoc  == [sid |-> 0, qi |-> 0, tid |-> NoTid, text |-> "",
           existing_index |-> 0, updates |-> <<>>, merged |-> <<>>, session |-> <<>>,
           request |-> <<>>]
NoResp == [op |-> "none", code |-> 0]

\* a response is handed to its client before any other step is taken
Quiet == \A p \in Procs : pc[p] # "done"

\* a new request is served by the first free request slot
FreeSlot(p) ==
    /\ p <= workers
    /\ pc[p] = "idle"
    /\ \A q \in 1..(p - 1) : pc[q] # "idle"

(* --------------------------- DataManager ------------------------------- *)
\* get_session: the dict in the file, or None when the file does not exist
HasSession(sid) == sid \in DOMAIN sessions

\* question indexes a client sends for a session: those of its questions,
\* one below and one above
ClientIndexes(sid) ==
    IF HasSession(sid) THEN (0 - 1)..Len(sessions[sid].questions) ELSE {0}

\* get_transcript
HasTranscript(tid) == tid \in DOMAIN transcripts

\* update_session line 236: session.update(updates)
DictUpdate(session, updates) == updates @@ session

\* store_transcript line 266: the id of a transcript stored now
TranscriptId(sid, qi, t) == <<sid, qi, t>>

\* store_transcript line 266 reads the clock, elapsed seconds after its
\* previous reading.  The second only tells apart the ids of one session and
\* index, so the clock moves on where the id would else be one in the store.
MayElapse(sid, qi, elapsed) ==
    \/ elapsed = 0
    \/ /\ now < MaxClock
       /\ HasTranscript(TranscriptId(sid, qi, now))

\* create_session line 205: uuid4, an id no session has
FreshSessionId == CHOOSE s \in SessionIds : s \notin DOMAIN sessions

\* add_session_response lines 343-347: position of the entry for the index
ExistingIndex(responses, qi) ==
    IF \E i \in 1..Len(responses) : responses[i].question_index = qi
    THEN CHOOSE i \in 1..Len(responses) :
            /\ responses[i].question_index = qi
            /\ \A j \in 1..(i - 1) : responses[j].question_index # qi
    ELSE 0

\* the entry appended without the lookup of lines 343-347
UpsertResponseAppendOnly(responses, qi, tid) ==
    Append(responses, [question_index |-> qi, transcript_id |-> tid])

\* add_session_response lines 349-360: replace the entry or append one
UpsertResponse(responses, qi, tid) ==
    LET e == [question_index |-> qi, transcript_id |-> tid]
        k == ExistingIndex(responses, qi)
    IN  IF k # 0 THEN [responses EXCEPT ![k] = e] ELSE Append(responses, e)

(* ------------------------- supplied questions ------------------------- *)
\* str.strip() of the supplied question strings of this model
Strip(q) ==
    CASE q = "  "    -> ""
      [] q = " Q1? " -> "Q1?"
      [] OTHER       -> q

\* start_interview line 581: [q.strip() for q in questions if q and q.strip()]
RECURSIVE CleanQuestions(_)
CleanQuestions(qs) ==
    IF qs = <<>> THEN <<>>
    ELSE IF Strip(Head(qs)) = ""
         THEN CleanQuestions(Tail(qs))
         ELSE <<Strip(Head(qs))>> \o CleanQuestions(Tail(qs))

\* GenerateRequest.desired_question_count
DesiredQuestionCount(num) ==
    IF num > 0 THEN (IF num < 20 THEN num ELSE 20) ELSE 5

(* ------------------------ question generation -------------------------- *)
\* str.endswith
EndsWith(text, ch) ==
    Len(text) > 0 /\ SubSeq(text, Len(text), Len(text)) = ch

\* TEMPLATES_KEYWORD lines 93-101, formatted with keyword and role
TemplatesKeyword(keyword, role) ==
    << "Can you walk me through a recent project where you applied "
          \o keyword \o "?",
       "How do you stay current with best practices around " \o keyword \o "?",
       "Describe a complex challenge involving " \o keyword
          \o " and how you solved it.",
       "How would you leverage " \o keyword \o " to deliver value as a "
          \o role \o "?",
       "Tell me about a time you led a team while focusing on "
          \o keyword \o ".",
       "What metrics do you track to measure success when working with "
          \o keyword \o "?",
       "How do you mentor teammates who are newer to " \o keyword \o "?" >>

\* TEMPLATES_GENERAL lines 103-109, formatted with role
TemplatesGeneral(role) ==
    << "What excites you most about contributing as a " \o role \o "?",
       "How do you prioritize competing deadlines in a fast-paced environment?",
       "Describe how you ensure communication stays clear across cross-functional partners.",
       "Walk me through your approach to planning the first 90 days in this "
          \o role \o " role.",
       "How do you evaluate whether a solution truly solved the original problem?" >>

\* the prompt start_interview builds (lines 586-590); N stands for the digits
\* of num_questions, which extract_keywords does not tokenise
StartPrompt ==
    "Generate N professional interview questions for a software developer position. Return only the questions, one per line, without numbering."

\* extract_keywords lines 112-124 on the texts of this model (None is "")
ExtractKeywords(text) ==
    CASE text = ""          -> <<>>
      [] text = "analyst"   -> <<"analyst">>
      [] text = "python and sql" -> <<"python", "sql">>
      [] text = StartPrompt -> <<"generate", "professional", "interview",
                                 "questions", "developer", "position",
                                 "return", "only">>
      [] OTHER              -> <<>>

\* generate_questions_locally lines 180-185
LocalKeywords(job_description, job_role) ==
    LET k1 == ExtractKeywords(job_description)
        k2 == IF k1 = <<>> /\ job_role # ""
              THEN ExtractKeywords(job_role) ELSE k1
    IN  IF k2 = <<>>
        THEN <<"problem solving", "stakeholder communication",
               "continuous improvement">>
        ELSE k2

\* list[:n]
Take(seq, n) == SubSeq(seq, 1, IF n < Len(seq) THEN n ELSE Len(seq))

\* the first keyword whatever the list holds already
KeywordAtFirst(keywords, questions) == keywords[1]

\* lines 192 and 201: keywords[len(questions) % len(keywords)]
KeywordAt(keywords, questions) ==
    keywords[(Len(questions) % Len(keywords)) + 1]

\* lines 189-193: the loop over TEMPLATES_KEYWORD, from the t-th template on
RECURSIVE KeywordLoop(_, _, _, _, _)
KeywordLoop(t, questions, num_questions, role_phrase, keywords) ==
    IF t > Len(TemplatesKeyword("", "")) \/ Len(questions) >= num_questions
    THEN questions
    ELSE KeywordLoop(t + 1,
            Append(questions,
                   TemplatesKeyword(KeywordAt(keywords, questions),
                                    role_phrase)[t]),
            num_questions, role_phrase, keywords)

\* lines 195-198: the loop over TEMPLATES_GENERAL, from the t-th template on
RECURSIVE GeneralLoop(_, _, _, _)
GeneralLoop(t, questions, num_questions, role_phrase) ==
    IF t > Len(TemplatesGeneral("")) \/ Len(questions) >= num_questions
    THEN questions
    ELSE GeneralLoop(t + 1,
            Append(questions, TemplatesGeneral(role_phrase)[t]),
            num_questions, role_phrase)

\* lines 200-202: the filler loop
RECURSIVE FillerLoop(_, _, _)
FillerLoop(questions, num_questions, keywords) ==
    IF Len(questions) >= num_questions THEN questions
    ELSE FillerLoop(
            Append(questions,
                   "What best practices have you developed around "
                      \o KeywordAt(keywords, questions) \o "?"),
            num_questions, keywords)

\* generate_questions_locally lines 175-204
GenerateQuestionsLocally(job_description, num_questions, job_role) ==
    LET role_phrase == IF job_role # "" THEN job_role ELSE "this role"
        keywords    == LocalKeywords(job_description, job_role)
    IN  Take(FillerLoop(
                GeneralLoop(1,
                    KeywordLoop(1, <<>>, num_questions, role_phrase, keywords),
                    num_questions, role_phrase),
                num_questions, keywords),
             num_questions)

\* lines a language model reply is made of in this model; each ends in "?"
\* or is blank, so re.split(r"\?\s*") of line 160 cuts the reply at the lines
ReplyLineSet ==
    { "1. How do you plan a database migration?",
      "What was your hardest production incident?",
      "Why it matters to you and me?",
      "Short?",
      "" }

\* extract_questions_from_text lines 131-153: what one line contributes
\* ("" when the line is dropped: blank, a skipped prefix, under 10
\* characters or under 5 words)
LineQuestion(line) ==
    CASE line = "1. How do you plan a database migration?"
            -> "How do you plan a database migration?"
      [] line = "What was your hardest production incident?" -> line
      [] OTHER -> ""

\* extract_questions_from_text lines 160-168: what the chunk cut from one
\* line contributes ("" when the chunk is dropped)
ChunkQuestion(line) ==
    CASE line = "1. How do you plan a database migration?"
            -> "How do you plan a database migration?"
      [] line = "What was your hardest production incident?" -> line
      [] line = "Why it matters to you and me?" -> line
      [] OTHER -> ""

SeqContains(seq, x) == \E i \in 1..Len(seq) : seq[i] = x

\* lines 131-153: the questions of the line pass
RECURSIVE LinePass(_)
LinePass(content) ==
    IF content = <<>> THEN <<>>
    ELSE IF LineQuestion(Head(content)) = ""
         THEN LinePass(Tail(content))
         ELSE <<LineQuestion(Head(content))>> \o LinePass(Tail(content))

\* lines 161-168: the chunks add the questions the list does not hold yet
RECURSIVE ChunkPass(_, _)
ChunkPass(lines, chunks) ==
    IF chunks = <<>> THEN lines
    ELSE LET question == ChunkQuestion(Head(chunks))
         IN  IF question # "" /\ ~SeqContains(lines, question)
             THEN ChunkPass(Append(lines, question), Tail(chunks))
             ELSE ChunkPass(lines, Tail(chunks))

\* extract_questions_from_text lines 127-172; content is the reply's lines
ExtractQuestionsFromText(content, max_questions) ==
    LET lines  == LinePass(content)
        chunks == SelectSeq(content, LAMBDA line : line # "")
    IN  Take(IF Len(lines) < max_questions
             THEN ChunkPass(lines, Take(chunks, max_questions))
             ELSE lines,
             max_questions)

\* what the chat call of lines 254-266 can do: raise, answer with a non-200
\* status, or answer 200 with a reply
LlmOutcome(kind, content) == [kind |-> kind, content |-> content]

ValueError(detail, calls) ==
    [error |-> "ValueError", detail |-> detail, questions |-> <<>>,
     source |-> "", used_fallback |-> FALSE, llm_calls |-> calls]

Payload(questions, source, fallback) ==
    [error |-> "", detail |-> "", questions |-> questions,
     source |-> source, used_fallback |-> fallback, llm_calls |-> 1]

\* infer_job_description lines 207-224 on the message texts of this model
InferJobDescription(messages) ==
    IF messages = <<>> \/ messages[1] = "" THEN "" ELSE messages[1]

\* build_questions_payload lines 227-305
BuildQuestionsPayload(request, llm) ==
    LET job_description == IF request.job_description # ""
                           THEN request.job_description
                           ELSE InferJobDescription(request.messages)
        num_questions   == DesiredQuestionCount(request.num_questions)
        job_role        == request.job_role
        parsed          == IF llm.kind = "ok"
                           THEN ExtractQuestionsFromText(llm.content,
                                                         num_questions)
                           ELSE <<>>
    IN  IF num_questions <= 0
        THEN ValueError("Number of questions must be greater than zero", 0)
        ELSE IF job_description = "" /\ job_role = ""
                  /\ request.messages = <<>>
        THEN ValueError("Either messages/prompt or job_description/job_role must be provided", 0)
        ELSE IF parsed # <<>>
        THEN Payload(parsed, "ollama", FALSE)
        ELSE IF job_description = "" /\ job_role = ""
        THEN ValueError("Job description or job role is required to generate questions", 1)
        ELSE Payload(GenerateQuestionsLocally(job_description, num_questions,
                                              job_role),
                     "fallback", TRUE)

(* ------------------------- /interview/start ---------------------------- *)
NewSession(questions, source, fallback) ==
    [questions        |-> questions,
     current_question |-> 0,
     status           |-> "active",
     question_source  |-> source,
     used_fallback    |-> fallback,
     responses        |-> <<>>]

\* raise HTTPException(status_code=code, detail=detail)
ErrorResp(op, code, detail) == [op |-> op, code |-> code, detail |-> detail]

\* lines 633-634: except Exception catches the ValueErrors of lines 582 and
\* 604 and of build_questions_payload and raises HTTPException(500)
StartCatch(detail, request) ==
    [op |-> "start", code |-> 500, detail |-> detail, request |-> request,
     llm_calls |-> 0]

\* lines 580-581 without the cleaning
SuppliedQuestionsUncleaned(questions) == questions

\* lines 580-581: the supplied questions, cleaned
SuppliedQuestions(questions) == CleanQuestions(questions)

\* lines 592-599: the GenerateRequest start_interview builds
StartGenerateRequest(num) ==
    [num_questions |-> num, job_role |-> "", job_description |-> "",
     messages |-> <<StartPrompt>>]

\* what the language model does for the start requests of this model
StartLlmOutcomes ==
    { LlmOutcome("exception", <<>>),
      LlmOutcome("ok", <<"Short?">>),
      LlmOutcome("ok", <<"1. How do you plan a database migration?">>) }

\* POST /interview/start.  supplied is request.questions, num is
\* request.num_questions, llm is what the language model does if it is called.
StartInterview(p, supplied, num, llm) ==
    /\ Quiet
    /\ FreeSlot(p)
    /\ nreq < MaxRequests
    /\ DOMAIN sessions # SessionIds
    /\ nreq' = nreq + 1
    /\ pc' = [pc EXCEPT ![p] = "done"]
    /\ UNCHANGED <<transcripts, now, loc, acked, workers, db>>
    /\ LET request == [questions |-> supplied, num_questions |-> num]
           client  == supplied # <<>>
           payload == IF client
                      THEN [Payload(SuppliedQuestions(supplied), "client",
                                    FALSE) EXCEPT !.llm_calls = 0]
                      ELSE BuildQuestionsPayload(StartGenerateRequest(num),
                                                 llm)
           detail  == IF payload.error # "" THEN payload.detail
                      ELSE IF client
                      THEN "Provided questions were empty after cleaning"
                      ELSE "No interview questions were generated"
       IN  IF payload.questions = <<>>
           THEN /\ resp' = [resp EXCEPT ![p] = StartCatch(detail, request)]
                /\ UNCHANGED sessions
           ELSE /\ sessions' = (FreshSessionId :>
                                  NewSession(payload.questions,
                                             payload.source,
                                             payload.used_fallback))
                                @@ sessions
                /\ resp' = [resp EXCEPT ![p] =
                              [op |-> "start", code |-> 200,
                               request |-> request,
                               llm_calls |-> payload.llm_calls,
                               session_id |-> FreshSessionId,
                               questions |-> payload.questions,
                               question_source |-> payload.source,
                               used_fallback |-> payload.used_fallback]]

(* ----------------------------- /transcribe ----------------------------- *)
\* POST /transcribe with session_id and question_index: the transcript is
\* stored under the id built from the form fields and the clock.  Session
\* ids are uuid4 values a client learns from /interview/start, so the form
\* field names a session that was created.  The store is written by a worker
\* process that is not inside another handler: the handlers of main.py that
\* touch the store have no await between their store operations.
Transcribe(sid, qi, text, elapsed) ==
    /\ Quiet
    /\ \E p \in Procs : FreeSlot(p)
    /\ HasSession(sid)
    /\ qi \in ClientIndexes(sid)
    /\ MayElapse(sid, qi, elapsed)
    /\ nreq < MaxRequests
    /\ nreq' = nreq + 1
    /\ now' = now + elapsed
    /\ transcripts' = (TranscriptId(sid, qi, now') :>
                         [session_id |-> sid, question_index |-> qi,
                          transcript |-> text])
                      @@ transcripts
    /\ UNCHANGED <<sessions, pc, loc, resp, acked, workers, db>>

(* --------------------------- /interview/submit ------------------------- *)
\* line 673: the detail names the transcript id that was looked up
TranscriptNotFound(id) ==
    [op |-> "submit", code |-> 400, detail |-> "Transcript not found",
     transcript_id |-> id]

\* lines 700-701: except Exception catches every exception raised in the try
\* block, the HTTPExceptions of lines 657, 673 and 678 included, and raises
\* HTTPException(500) in its place
SubmitCatch(e) == [e EXCEPT !.code = 500]

\* a handler ends: its response is recorded and its locals are dropped
Finish(p, r) ==
    /\ pc' = [pc EXCEPT ![p] = "done"]
    /\ resp' = [resp EXCEPT ![p] = r]
    /\ loc' = [loc EXCEPT ![p] = NoLoc]
    /\ acked' = IF r.op = "submit" /\ r.code = 200
                THEN acked \cup {<<r.sid, r.qi>>} ELSE acked
    /\ UNCHANGED <<workers, db>>

\* lines 661-668: without a transcript_id a "skipped" transcript is stored
\* under the id store_transcript builds; None when the file cannot be written
SubmittedTid(sid, qi, tid, t, io_ok) ==
    IF tid # NoTid THEN tid
    ELSE IF io_ok THEN TranscriptId(sid, qi, t) ELSE NoTid

\* the skipped transcript stored with an empty text
SkippedTranscriptBlank(sid, qi) ==
    [session_id |-> sid, question_index |-> qi, transcript |-> ""]

\* lines 661-667: the transcript stored for a skipped question
SkippedTranscript(sid, qi) ==
    [session_id |-> sid, question_index |-> qi, transcript |-> SkippedText]

\* lines 654-673: the request arrives; the session must exist (the
\* HTTPException(404) is raised inside the try block and re-raised as 500),
\* the skipped transcript is stored if need be, and the transcript must be
\* in the transcript store (HTTPException(400), re-raised as 500).
SubmitBegin(p, sid, qi, tid, elapsed, io_ok) ==
    /\ Quiet
    /\ FreeSlot(p)
    /\ qi \in ClientIndexes(sid)
    /\ elapsed = 0 \/ (HasSession(sid) /\ tid = NoTid /\ io_ok
                         /\ MayElapse(sid, qi, elapsed))
    /\ nreq < MaxRequests
    /\ nreq' = nreq + 1
    /\ now' = now + elapsed
    /\ UNCHANGED sessions
    /\ IF ~HasSession(sid)
       THEN /\ Finish(p, SubmitCatch(ErrorResp("submit", 404,
                                     "Interview session not found")))
            /\ UNCHANGED transcripts
       ELSE LET id == SubmittedTid(sid, qi, tid, now', io_ok)
            IN  /\ transcripts' =
                      IF tid = NoTid /\ io_ok
                      THEN (id :> SkippedTranscript(sid, qi)) @@ transcripts
                      ELSE transcripts
                /\ IF id \notin DOMAIN transcripts'
                   THEN Finish(p, SubmitCatch(TranscriptNotFound(id)))
                   ELSE /\ pc' = [pc EXCEPT ![p] = "add_read"]
                        /\ loc' = [loc EXCEPT ![p] =
                                    [NoLoc EXCEPT !.sid = sid, !.qi = qi,
                                       !.tid = id,
                                       !.request = [transcript_id |-> tid],
                                       !.text = transcripts'[id].transcript]]
                        /\ UNCHANGED <<resp, acked, workers, db>>

\* add_session_response lines 335-360: read the session and upsert the entry
\* in the local copy.  The copy is then handed to update_session, whose own
\* read (lines 232-236) is overwritten key by key by that full dict.
SubmitAddRead(p) ==
    /\ Quiet
    /\ pc[p] = "add_read"
    /\ UNCHANGED <<sessions, transcripts, now, nreq>>
    /\ IF ~HasSession(loc[p].sid)
       THEN Finish(p, SubmitCatch(ErrorResp("submit", 500,
                                     "Failed to add response to session")))
       ELSE LET session == sessions[loc[p].sid]
                copy == [session EXCEPT !.responses =
                            UpsertResponse(@, loc[p].qi, loc[p].tid)]
            IN  /\ loc' = [loc EXCEPT
                            ![p].existing_index =
                                ExistingIndex(session.responses, loc[p].qi),
                            ![p].merged = DictUpdate(session, copy)]
                /\ pc' = [pc EXCEPT ![p] = "add_upd_write"]
                /\ UNCHANGED <<resp, acked, workers, db>>

\* update_session lines 239-246: the file is rewritten; on IOError
\* add_session_response returns False and the handler raises (lines 677-678)
SubmitAddUpdWrite(p, io_ok) ==
    /\ Quiet
    /\ pc[p] = "add_upd_write"
    /\ UNCHANGED <<transcripts, now, nreq>>
    /\ IF io_ok
       THEN /\ sessions' = [sessions EXCEPT ![loc[p].sid] = loc[p].merged]
            /\ pc' = [pc EXCEPT ![p] = "refresh"]
            /\ UNCHANGED <<loc, resp, acked, workers, db>>
       ELSE /\ UNCHANGED sessions
            /\ Finish(p, SubmitCatch(ErrorResp("submit", 500,
                                     "Failed to add response to session")))

\* lines 680-687: current_question = question_index + 1
NextQuestion(session, qi) == qi + 1

\* lines 683-687: the updates dict
ProgressUpdates(session, cq) ==
    IF cq >= Len(session.questions)
    THEN [current_question |-> cq, status |-> "completed"]
    ELSE [current_question |-> cq]

\* lines 681-687: refresh the session, compute the progress updates
SubmitRefresh(p) ==
    /\ Quiet
    /\ pc[p] = "refresh"
    /\ UNCHANGED <<sessions, transcripts, now, nreq>>
    /\ IF ~HasSession(loc[p].sid)
       THEN Finish(p, SubmitCatch(ErrorResp("submit", 500, "TypeError")))
       ELSE LET session == sessions[loc[p].sid]
            IN  /\ loc' = [loc EXCEPT
                            ![p].session = session,
                            ![p].updates = ProgressUpdates(session,
                                             NextQuestion(session, loc[p].qi))]
                /\ pc' = [pc EXCEPT ![p] = "fin_upd_read"]
                /\ UNCHANGED <<resp, acked, workers, db>>

\* lines 692-698: the success response
SubmitResponse(p) ==
    LET u == loc[p].updates
    IN  [op |-> "submit", code |-> 200,
         sid |-> loc[p].sid, qi |-> loc[p].qi,
         request |-> loc[p].request,
         transcript |-> loc[p].text,
         transcript_id |-> loc[p].tid,
         session_status |-> IF "status" \in DOMAIN u THEN u.status
                            ELSE loc[p].session.status,
         next_question_index |-> u.current_question]

\* update_session lines 232-237 called from line 690; its result is ignored
SubmitFinUpdRead(p) ==
    /\ Quiet
    /\ pc[p] = "fin_upd_read"
    /\ UNCHANGED <<sessions, transcripts, now, nreq>>
    /\ IF ~HasSession(loc[p].sid)
       THEN Finish(p, SubmitResponse(p))
       ELSE /\ loc' = [loc EXCEPT ![p].merged =
                        DictUpdate(sessions[loc[p].sid], loc[p].updates)]
            /\ pc' = [pc EXCEPT ![p] = "fin_upd_write"]
            /\ UNCHANGED <<resp, acked, workers, db>>

\* update_session lines 239-246 called from line 690, then lines 692-698
SubmitFinUpdWrite(p, io_ok) ==
    /\ Quiet
    /\ pc[p] = "fin_upd_write"
    /\ UNCHANGED <<transcripts, now, nreq>>
    /\ sessions' = IF io_ok
                   THEN [sessions EXCEPT ![loc[p].sid] = loc[p].merged]
                   ELSE sessions
    /\ Finish(p, SubmitResponse(p))

\* the client has read the response; the slot serves the next request
Return(p) ==
    /\ pc[p] = "done"
    /\ pc' = [pc EXCEPT ![p] = "idle"]
    /\ resp' = [resp EXCEPT ![p] = NoResp]
    /\ UNCHANGED <<sessions, transcripts, now, loc, nreq, acked, workers, db>>

(* ------------------------------ /generate ------------------------------ *)
\* the GenerateRequest bodies of this model (None is "" and <<>>); messages
\* holds the content of each chat message
GenerateRequests ==
    [num_questions   : (0 - 1)..MaxNum,
     job_role        : {"", "analyst"},
     job_description : {"", "python and sql"},
     messages        : {<<>>, <<"">>}]

\* the replies of the language model, as lists of lines
Replies == UNION { [1..n -> ReplyLineSet] : n \in 0..MaxReplyLines }

LlmOutcomes ==
    { LlmOutcome("exception", <<>>), LlmOutcome("non200", <<>>) }
        \cup { LlmOutcome("ok", reply) : reply \in Replies }

\* POST /generate lines 495-506: the payload, or 422 for a ValueError
GenerateText(p, llm) ==
    /\ pc[p] = "generate"
    /\ UNCHANGED <<sessions, transcripts, now, nreq>>
    /\ LET request == loc[p].request
           payload == BuildQuestionsPayload(request, llm)
       IN  Finish(p, [op |-> "generate",
                      code |-> IF payload.error = "ValueError"
                               THEN 422 ELSE 200,
                      detail |-> payload.detail,
                      request |-> request,
                      llm |-> llm,
                      llm_calls |-> payload.llm_calls,
                      questions |-> payload.questions,
                      source |-> payload.source,
                      used_fallback |-> payload.used_fallback])

(* ---------------------- /interview/{id}/results ------------------------ *)
\* len(text.split()) of the transcript texts of this model
WordCount(text) ==
    CASE text = ""                                     -> 0
      [] text = "I led the database migration project" -> 6
      [] text = SkippedText                            -> 6
      [] text = NotFoundText                           -> 3
      [] text = NoResponseText                         -> 3
      [] OTHER                                         -> 1

\* get_session_responses_with_transcripts lines 371-385: {**response,
\* **transcript}, the transcript's keys win; a placeholder when it is missing
WithTranscript(response) ==
    IF HasTranscript(response.transcript_id)
    THEN [question_index |-> transcripts[response.transcript_id].question_index,
          transcript_id  |-> response.transcript_id,
          transcript     |-> transcripts[response.transcript_id].transcript]
    ELSE [question_index |-> response.question_index,
          transcript_id  |-> response.transcript_id,
          transcript     |-> NotFoundText]

\* list.sort(key=question_index): stable insertion of one row
RECURSIVE InsertByIndex(_, _)
InsertByIndex(sorted, row) ==
    IF sorted = <<>> THEN <<row>>
    ELSE IF row.question_index < Head(sorted).question_index
         THEN <<row>> \o sorted
         ELSE <<Head(sorted)>> \o InsertByIndex(Tail(sorted), row)

RECURSIVE SortByIndex(_)
SortByIndex(rows) ==
    IF rows = <<>> THEN <<>>
    ELSE InsertByIndex(SortByIndex(SubSeq(rows, 1, Len(rows) - 1)),
                       rows[Len(rows)])

\* get_session_responses_with_transcripts lines 364-389
SessionResponsesWithTranscripts(sid) ==
    IF ~HasSession(sid) THEN <<>>
    ELSE SortByIndex([i \in 1..Len(sessions[sid].responses) |->
                        WithTranscript(sessions[sid].responses[i])])

\* line 738: session["questions"][question_index] with Python's negative
\* indexing; "IndexError" when the index is below -len(questions)
QuestionAt(questions, qi) ==
    IF qi >= Len(questions) THEN "Unknown question"
    ELSE IF qi >= 0 THEN questions[qi + 1]
    ELSE IF qi >= 0 - Len(questions) THEN questions[Len(questions) + qi + 1]
    ELSE "IndexError"

\* lines 741-745
ShownTranscript(text) == IF text = "" THEN NoResponseText ELSE text

\* lines 822-838: word-count bands, in tenths of a point
BandScore(words) ==
    IF words < 5 THEN 20
    ELSE IF words < 20 THEN 40
    ELSE IF words < 50 THEN 60
    ELSE IF words < 100 THEN 80
    ELSE 90

Clamp(lo, x, hi) == IF x < lo THEN lo ELSE IF x > hi THEN hi ELSE x

\* what the scoring call to the language model can do: raise (timeout,
\* connection error), answer with a non-200 status, or answer 200 with a
\* reply that has no "Score:" line or one with the given value (in tenths)
GatewayOutcomes ==
    { [kind |-> "exception", score |-> 0],
      [kind |-> "non200",    score |-> 0],
      [kind |-> "noscore",   score |-> 0],
      [kind |-> "score",     score |-> 75] }

\* lines 788-838: the score of one response, in tenths of a point
ScoreOf(text, outcome) ==
    CASE outcome.kind = "exception" -> BandScore(WordCount(text))
      [] outcome.kind = "non200"    -> Clamp(10, WordCount(text), 100)
      [] outcome.kind = "noscore"   -> 50
      [] OTHER                      -> Clamp(10, outcome.score, 100)

\* lines 736-849: one scored entry
ScoredEntry(session, row, outcome) ==
    [question_index |-> row.question_index,
     transcript_id  |-> row.transcript_id,
     question       |-> QuestionAt(session.questions, row.question_index),
     transcript     |-> row.transcript,
     score          |-> ScoreOf(ShownTranscript(row.transcript), outcome)]

RECURSIVE SumScores(_)
SumScores(entries) ==
    IF entries = <<>> THEN 0
    ELSE Head(entries).score + SumScores(Tail(entries))

\* round(total / n, 1) on tenths: nearest, ties to even
RoundDiv(total, n) ==
    LET q == total \div n
        r == total % n
    IN  IF 2 * r < n THEN q
        ELSE IF 2 * r > n THEN q + 1
        ELSE IF q % 2 = 0 THEN q ELSE q + 1

\* lines 853-864
AverageScore(entries) ==
    IF entries = <<>> THEN 0 ELSE RoundDiv(SumScores(entries), Len(entries))

\* the status check of line 717 left out
ResultsMayScoreAlways(session) == TRUE

\* line 717: session["status"] != "completed" raises HTTPException(400)
ResultsMayScore(session) == session.status = "completed"

\* lines 707-721: the session is read; 404 when absent, 400 unless completed
ResultsBegin(p, sid) ==
    /\ Quiet
    /\ FreeSlot(p)
    /\ nreq < MaxRequests
    /\ nreq' = nreq + 1
    /\ UNCHANGED <<sessions, transcripts, now>>
    /\ IF ~HasSession(sid)
       THEN Finish(p, [op |-> "results", code |-> 404, sid |-> sid,
                       calls |-> 0])
       ELSE IF ~ResultsMayScore(sessions[sid])
       THEN Finish(p, [op |-> "results", code |-> 400, sid |-> sid,
                       calls |-> 0])
       ELSE /\ pc' = [pc EXCEPT ![p] = "res_score"]
            /\ loc' = [loc EXCEPT ![p] =
                        [NoLoc EXCEPT !.sid = sid, !.session = sessions[sid]]]
            /\ UNCHANGED <<resp, acked, workers, db>>

\* lines 723-864: the responses are read with their transcripts and scored,
\* one language-model call per response, each with its own outcome
ResultsScore(p) ==
    /\ Quiet
    /\ pc[p] = "res_score"
    /\ UNCHANGED <<sessions, transcripts, now, nreq>>
    /\ LET session == loc[p].session
           rows    == SessionResponsesWithTranscripts(loc[p].sid)
       IN  \E outcomes \in [1..Len(rows) -> GatewayOutcomes] :
             LET entries == [i \in 1..Len(rows) |->
                               ScoredEntry(session, rows[i], outcomes[i])]
             IN  IF \E i \in 1..Len(rows) :
                        entries[i].question = "IndexError"
                 THEN Finish(p, [op |-> "results", code |-> 500,
                                 sid |-> loc[p].sid, calls |-> Len(rows)])
                 ELSE Finish(p,
                        [op |-> "results", code |-> 200, sid |-> loc[p].sid,
                         calls |-> Len(rows),
                         gateway |-> [i \in 1..Len(rows) |->
                                        outcomes[i].kind],
                         total_questions |-> Len(session.questions),
                         completed_responses |-> Len(entries),
                         average_score |-> AverageScore(entries),
                         responses |-> entries])

(* ---------------------------- /scoring/score --------------------------- *)
\* scores of the scoring endpoint are counted in sixths of a point, so that
\* the mean of three sub-scores and the half-and-half final score are whole
ScoreUnit == 6

\* one line of an evaluation text: the label it contains and what follows it
EvalLine(label, value) == [label |-> label, value |-> value]

\* the lines an evaluation text is made of in this model
EvalLineSet ==
    { EvalLine("Clarity & Structure:", "9/10"),
      EvalLine("Professionalism:", "7"),
      EvalLine("Linguistic Avg:", "0/10"),
      EvalLine("Linguistic Avg:", "8/10"),
      EvalLine("Behavioral Avg:", "15"),
      EvalLine("Final Score:", "15/10"),
      EvalLine("Final Score:", "0/10"),
      EvalLine("Summary:", "") }

EvalTexts == UNION { [1..n -> EvalLineSet] : n \in 0..MaxEvalLines }

\* extract_score lines 158-176 on the values of this model: "n/10" gives n
\* whatever its size, a bare number gives it when in 0..10, anything else 0
ExtractScore(line) ==
    CASE line.value = "9/10"  -> 9 * ScoreUnit
      [] line.value = "8/10"  -> 8 * ScoreUnit
      [] line.value = "0/10"  -> 0
      [] line.value = "15/10" -> 15 * ScoreUnit
      [] line.value = "7"     -> 7 * ScoreUnit
      [] line.value = "15"    -> 0
      [] OTHER                -> 0

\* parse_evaluation_scores lines 106-116
ZeroScores ==
    [clarity_structure       |-> 0, grammar_vocabulary      |-> 0,
     conciseness_relevance   |-> 0, professionalism         |-> 0,
     confidence_delivery     |-> 0, engagement_adaptability |-> 0,
     linguistic_avg          |-> 0, behavioral_avg          |-> 0,
     final_score             |-> 0]

\* lines 123-140: the key the elif chain assigns for a line, "" for none
ScoreKey(line) ==
    CASE line.label = "Clarity & Structure:"  -> "clarity_structure"
      [] line.label = "Grammar & Vocabulary:" -> "grammar_vocabulary"
      [] line.label = "Conciseness"           -> "conciseness_relevance"
      [] line.label = "Professionalism:"      -> "professionalism"
      [] line.label = "Confidence:"           -> "confidence_delivery"
      [] line.label = "Engagement:"           -> "engagement_adaptability"
      [] line.label = "Linguistic Avg:"       -> "linguistic_avg"
      [] line.label = "Behavioral Avg:"       -> "behavioral_avg"
      [] line.label = "Final Score:"          -> "final_score"
      [] OTHER                                -> ""

\* lines 121-140: the loop over the lines, a later line overwriting
RECURSIVE ParseLines(_, _)
ParseLines(lines, scores) ==
    IF lines = <<>> THEN scores
    ELSE ParseLines(Tail(lines),
            IF ScoreKey(Head(lines)) = "" THEN scores
            ELSE [scores EXCEPT ![ScoreKey(Head(lines))] =
                                    ExtractScore(Head(lines))])

\* parse_evaluation_scores lines 104-156
ParseEvaluationScores(evaluation_text) ==
    LET parsed == ParseLines(evaluation_text, ZeroScores)
        linguistic_avg ==
            IF parsed.linguistic_avg = 0
            THEN (parsed.clarity_structure + parsed.grammar_vocabulary
                     + parsed.conciseness_relevance) \div 3
            ELSE parsed.linguistic_avg
        behavioral_avg ==
            IF parsed.behavioral_avg = 0
            THEN (parsed.professionalism + parsed.confidence_delivery
                     + parsed.engagement_adaptability) \div 3
            ELSE parsed.behavioral_avg
        final_score ==
            IF parsed.final_score = 0
            THEN (linguistic_avg + behavioral_avg) \div 2
            ELSE parsed.final_score
    IN  [parsed EXCEPT !.linguistic_avg = linguistic_avg,
                       !.behavioral_avg = behavioral_avg,
                       !.final_score    = final_score]

\* what the call of call_ollama_gemma lines 70-102 can do: time out, fail as
\* a request (connection error, error status), fail otherwise, or return the
\* evaluation text
NoOutcome == [kind |-> "none", text |-> <<>>]

ScoringOutcomes ==
    { [kind |-> "timeout",     text |-> <<>>],
      [kind |-> "unavailable", text |-> <<>>],
      [kind |-> "unexpected",  text |-> <<>>] }
        \cup { [kind |-> "ok", text |-> text] : text \in EvalTexts }

\* call_ollama_gemma lines 94-102: the status of the HTTPException raised
CallOllamaGemmaStatus(outcome) ==
    CASE outcome.kind = "timeout"     -> 504
      [] outcome.kind = "unavailable" -> 503
      [] outcome.kind = "unexpected"  -> 500
      [] OTHER                        -> 200

\* the ScoringRequest bodies of this model
ScoringRequests ==
    [question   : {"Why this role?"},
     transcript : {"", "  ", "Too short",
                   "I led the database migration project"}]

ScoreResp(request, code, outcome, scores) ==
    [op |-> "score", code |-> code, request |-> request,
     gateway |-> outcome,
     linguistic_score |-> scores.linguistic_avg,
     behavioral_score |-> scores.behavioral_avg,
     final_score |-> scores.final_score,
     detailed_scores |-> scores]

\* POST /scoring/score lines 178-235
ScoreInterviewResponse(p, outcome) ==
    /\ pc[p] = "score"
    /\ UNCHANGED <<sessions, transcripts, now, nreq>>
    /\ LET request == loc[p].request
       IN  IF Strip(request.transcript) = ""
                 \/ Len(request.transcript) < 10
           THEN Finish(p, ScoreResp(request, 400, NoOutcome, ZeroScores))
           ELSE IF outcome.kind # "ok"
           THEN Finish(p, ScoreResp(request, CallOllamaGemmaStatus(outcome),
                                    outcome, ZeroScores))
           ELSE Finish(p, ScoreResp(request, 200, outcome,
                                    ParseEvaluationScores(outcome.text)))

(* ------------------ interviews, candidates and admins ------------------ *)
\* the database before any row is written
EmptyDb == [users |-> <<>>, interviews |-> <<>>, results |-> {}]

\* the users table of this model: one admin and one candidate
Users ==
    ("u-admin" :> [id |-> "u-admin", username |-> "ada", role |-> "admin"])
    @@ ("u-cand" :> [id |-> "u-cand", username |-> "cy",
                     role |-> "candidate"])

\* the user ids a request can carry: blank, the two users, an unknown id
RequestUserIds == {"", "u-admin", "u-cand", "u-ghost"}

\* interview ids: rows found at start-up hold 1..MaxStored, and uuid4 at
\* admin.py line 35 yields an id no row holds
InterviewIds == 1..(MaxStored + MaxRequests)

\* the interviews rows a database can hold at start-up
InterviewRows ==
    [title : {"analyst"}, description : {""},
     config : [questions : {<<>>, <<"Q1?">>}],
     allowed_candidate_ids : {<<>>, <<"u-cand">>},
     active : BOOLEAN]

WithId(row, id) == [id |-> id] @@ row

\* the results rows a database can hold at start-up
ResultRows == [candidate_id : {"u-cand"}, interview_id : 1..MaxStored]

\* require_user lines 28-35: the status it raises, 200 when it returns
RequireUser(user_id, expected_role) ==
    IF user_id = "" THEN 400
    ELSE IF user_id \notin DOMAIN db.users THEN 404
    ELSE IF expected_role # "" /\ db.users[user_id].role # expected_role
    THEN 403
    ELSE 200

\* require_candidate lines 43-45
RequireCandidate(user_id) == RequireUser(user_id, "candidate")

\* require_admin lines 38-40
RequireAdmin(user_id) == RequireUser(user_id, "admin")

\* data_manager.get_interview lines 118-129: the row with this id, if any
HasInterview(interview_id) ==
    \E i \in 1..Len(db.interviews) : db.interviews[i].id = interview_id

GetInterview(interview_id) ==
    db.interviews[CHOOSE i \in 1..Len(db.interviews) :
                     db.interviews[i].id = interview_id]

\* the completed check left out
AlreadyCompletedNever(candidate_id, interview_id) == FALSE

\* candidate.py lines 73-80: a result row for this candidate and interview
AlreadyCompleted(candidate_id, interview_id) ==
    \E result \in db.results :
        /\ result.candidate_id = candidate_id
        /\ result.interview_id = interview_id

\* utils.helpers.normalize_ids: the ids as a list of strings
NormalizeIds(ids) == ids

\* candidate.py lines 92-98: the InterviewStartRequest built from the
\* interview; config holds no job_role, job_description or num_questions
CandidateStartRequest(candidate, interview) ==
    [candidate_name  |-> candidate.username,
     job_role        |-> interview.title,
     job_description |-> interview.description,
     num_questions   |-> IF Len(interview.config.questions) > 0
                         THEN Len(interview.config.questions) ELSE 3,
     questions       |-> interview.config.questions]

\* services.interview_service.start_interview_session: supplied questions
\* are used once blank entries are dropped, otherwise questions are
\* generated; an empty list is an error
StartInterviewSession(request, llm) ==
    IF CleanQuestions(request.questions) # <<>>
    THEN Payload(CleanQuestions(request.questions), "client", FALSE)
    ELSE BuildQuestionsPayload(
            [num_questions   |-> request.num_questions,
             job_role        |-> request.job_role,
             job_description |-> request.job_description,
             messages        |-> <<>>], llm)

\* candidate.py lines 100-108: the metadata written into the session
CandidateMetadata(candidate, interview) ==
    [candidate_id        |-> candidate.id,
     candidate_username  |-> candidate.username,
     interview_id        |-> interview.id,
     interview_title     |-> interview.title,
     interview_description |-> interview.description,
     interview_config    |-> interview.config]

\* a handler that does not go through submit ends: its response is recorded
Answer(p, r) ==
    /\ pc' = [pc EXCEPT ![p] = "done"]
    /\ resp' = [resp EXCEPT ![p] = r]
    /\ UNCHANGED <<loc, acked, workers>>

CandidateStartResp(code, interview_id, candidate_id, session_id) ==
    [op |-> "candidate_start", code |-> code,
     request |-> [interview_id |-> interview_id,
                  candidate_id |-> candidate_id],
     session_id |-> session_id]

\* POST /api/candidate/interviews/{interview_id}/start, candidate.py lines
\* 67-119
StartCandidateInterview(p, interview_id, candidate_id, llm) ==
    /\ Quiet
    /\ FreeSlot(p)
    /\ nreq < MaxRequests
    /\ nreq' = nreq + 1
    /\ UNCHANGED <<transcripts, now, db>>
    /\ IF RequireCandidate(candidate_id) # 200
       THEN /\ Answer(p, CandidateStartResp(RequireCandidate(candidate_id),
                                            interview_id, candidate_id, 0))
            /\ UNCHANGED sessions
       ELSE IF AlreadyCompleted(candidate_id, interview_id)
       THEN /\ Answer(p, CandidateStartResp(400, interview_id,
                                            candidate_id, 0))
            /\ UNCHANGED sessions
       ELSE IF ~HasInterview(interview_id)
       THEN /\ Answer(p, CandidateStartResp(404, interview_id,
                                            candidate_id, 0))
            /\ UNCHANGED sessions
       ELSE IF ~GetInterview(interview_id).active
       THEN /\ Answer(p, CandidateStartResp(400, interview_id,
                                            candidate_id, 0))
            /\ UNCHANGED sessions
       ELSE IF ~SeqContains(NormalizeIds(
                    GetInterview(interview_id).allowed_candidate_ids),
                  candidate_id)
       THEN /\ Answer(p, CandidateStartResp(403, interview_id,
                                            candidate_id, 0))
            /\ UNCHANGED sessions
       ELSE LET candidate == db.users[candidate_id]
                interview == GetInterview(interview_id)
                payload   == StartInterviewSession(
                                CandidateStartRequest(candidate, interview),
                                llm)
            IN  IF payload.error # ""
                THEN /\ Answer(p, CandidateStartResp(422, interview_id,
                                                     candidate_id, 0))
                     /\ UNCHANGED sessions
                ELSE /\ DOMAIN sessions # SessionIds
                     /\ sessions' =
                          (FreshSessionId :>
                             DictUpdate(NewSession(payload.questions,
                                                   payload.source,
                                                   payload.used_fallback),
                                        CandidateMetadata(candidate,
                                                          interview)))
                          @@ sessions
                     /\ Answer(p, CandidateStartResp(200, interview_id,
                                     candidate_id, FreshSessionId))

\* the AdminInterviewCreateRequest bodies of this model
AdminInterviewCreateRequests ==
    [admin_id : RequestUserIds, title : {"analyst"}, description : {""},
     config : [questions : {<<"Q1?">>}],
     allowed_candidate_ids : {<<>>, <<"u-cand">>},
     active : BOOLEAN]

\* uuid4 at admin.py line 35: an id that no stored interview holds
FreshInterviewId ==
    CHOOSE id \in InterviewIds :
        \A i \in 1..Len(db.interviews) : db.interviews[i].id # id

\* admin.py lines 34-43
NewInterview(request) ==
    [id                    |-> FreshInterviewId,
     title                 |-> request.title,
     description           |-> request.description,
     config                |-> request.config,
     allowed_candidate_ids |-> NormalizeIds(request.allowed_candidate_ids),
     active                |-> request.active]

\* the PRIMARY KEY of database.py line 33: INSERT fails on a repeated id
DistinctIds(interviews) ==
    \A i, j \in 1..Len(interviews) :
        interviews[i].id = interviews[j].id => i = j

\* save_interviews lines 99-116: the table is emptied and refilled in one
\* transaction; sqlite3.IntegrityError leaves it uncommitted
SaveInterviews(interviews) ==
    IF DistinctIds(interviews) THEN interviews ELSE db.interviews

CreateInterviewResp(code, request, saved, interview) ==
    [op |-> "create_interview", code |-> code, request |-> request,
     saved |-> saved, interview |-> interview]

\* POST /api/admin/interviews, hr_agent/server/routers/admin.py lines 29-78:
\* the list handed to save_interviews holds the new interview twice (lines
\* 45-46); the exception of save_interviews is not caught
CreateAdminInterview(p, request) ==
    /\ Quiet
    /\ FreeSlot(p)
    /\ nreq < MaxRequests
    /\ nreq' = nreq + 1
    /\ UNCHANGED <<sessions, transcripts, now>>
    /\ IF RequireAdmin(request.admin_id) # 200
       THEN /\ Answer(p, CreateInterviewResp(RequireAdmin(request.admin_id),
                                             request, <<>>, <<>>))
            /\ UNCHANGED db
       ELSE LET new_interview == NewInterview(request)
                interviews == Append(Append(db.interviews, new_interview),
                                     new_interview)
            IN  /\ \E id \in InterviewIds :
                      \A i \in 1..Len(db.interviews) :
                          db.interviews[i].id # id
                /\ db' = [db EXCEPT !.interviews = SaveInterviews(interviews)]
                /\ Answer(p, CreateInterviewResp(
                                IF DistinctIds(interviews) THEN 200 ELSE 500,
                                request, interviews, new_interview))

(* --------------------------- specification ----------------------------- *)
InitStore ==
    /\ sessions = <<>>
    /\ transcripts = <<>>
    /\ now = 0
    /\ pc = [p \in Procs |-> "idle"]
    /\ loc = [p \in Procs |-> NoLoc]
    /\ resp = [p \in Procs |-> NoResp]
    /\ nreq = 0
    /\ acked = {}
    /\ db = EmptyDb

\* transcript ids a client can send: none, one that exists, one that does not
ClientTids == {NoTid, GhostTid} \cup DOMAIN transcripts

Next ==
    \/ \E p \in Procs, supplied \in SuppliedLists, num \in {MaxQuestions},
          llm \in StartLlmOutcomes :
            StartInterview(p, supplied, num, llm)
    \/ \E sid \in DOMAIN sessions : \E qi \in ClientIndexes(sid) :
          \E text \in TranscribedTexts, elapsed \in 0..1 :
            Transcribe(sid, qi, text, elapsed)
    \/ \E p \in Procs :
          /\ Quiet /\ FreeSlot(p)
          /\ \E sid \in SessionIds : \E qi \in ClientIndexes(sid) :
               \E tid \in ClientTids, elapsed \in 0..1, io_ok \in BOOLEAN :
                 SubmitBegin(p, sid, qi, tid, elapsed, io_ok)
    \/ \E p \in Procs : SubmitAddRead(p)
    \/ \E p \in Procs, io_ok \in BOOLEAN : SubmitAddUpdWrite(p, io_ok)
    \/ \E p \in Procs : SubmitRefresh(p)
    \/ \E p \in Procs : SubmitFinUpdRead(p)
    \/ \E p \in Procs, io_ok \in BOOLEAN : SubmitFinUpdWrite(p, io_ok)
    \/ \E p \in Procs, sid \in SessionIds : ResultsBegin(p, sid)
    \/ \E p \in Procs : ResultsScore(p)
    \/ \E p \in Procs : Return(p)

\* several worker processes share the data directory
Init == InitStore /\ workers = NumProcs

Spec == Init /\ [][Next]_vars

\* the single worker process of main.py lines 867-873
SeqInit == InitStore /\ workers = 1

SeqSpec == SeqInit /\ [][Next]_vars

\* one /generate request has arrived at an empty Store
GenInit ==
    /\ sessions = <<>>
    /\ transcripts = <<>>
    /\ now = 0
    /\ pc = [p \in Procs |-> IF p = 1 THEN "generate" ELSE "idle"]
    /\ \E request \in GenerateRequests :
          loc = [p \in Procs |-> IF p = 1
                                 THEN [NoLoc EXCEPT !.request = request]
                                 ELSE NoLoc]
    /\ resp = [p \in Procs |-> NoResp]
    /\ nreq = 0
    /\ acked = {}
    /\ db = EmptyDb
    /\ workers = 1

GenNext ==
    \/ \E p \in Procs, llm \in LlmOutcomes : GenerateText(p, llm)
    \/ \E p \in Procs : Return(p)

GenSpec == GenInit /\ [][GenNext]_vars

\* one /scoring/score request has arrived
ScoreInit ==
    /\ sessions = <<>>
    /\ transcripts = <<>>
    /\ now = 0
    /\ pc = [p \in Procs |-> IF p = 1 THEN "score" ELSE "idle"]
    /\ \E request \in ScoringRequests :
          loc = [p \in Procs |-> IF p = 1
                                 THEN [NoLoc EXCEPT !.request = request]
                                 ELSE NoLoc]
    /\ resp = [p \in Procs |-> NoResp]
    /\ nreq = 0
    /\ acked = {}
    /\ db = EmptyDb
    /\ workers = 1

ScoreNext ==
    \/ \E p \in Procs, outcome \in ScoringOutcomes :
          ScoreInterviewResponse(p, outcome)
    \/ \E p \in Procs : Return(p)

ScoreSpec == ScoreInit /\ [][ScoreNext]_vars

\* the databases found at start-up: the users, up to MaxStored interviews
\* with ids 1, 2, ..., and results of the candidate
StartupDbs ==
    { [users |-> Users, interviews |-> interviews, results |-> results] :
        interviews \in UNION { { [i \in 1..n |-> WithId(rows[i], i)] :
                                   rows \in [1..n -> InterviewRows] } :
                               n \in 0..MaxStored },
        results \in SUBSET ResultRows }

\* the server starts on a database written by earlier runs
AdminInit ==
    /\ sessions = <<>>
    /\ transcripts = <<>>
    /\ now = 0
    /\ pc = [p \in Procs |-> "idle"]
    /\ loc = [p \in Procs |-> NoLoc]
    /\ resp = [p \in Procs |-> NoResp]
    /\ nreq = 0
    /\ acked = {}
    /\ workers = 1
    /\ db \in StartupDbs

AdminNext ==
    \/ \E p \in Procs, interview_id \in 1..(MaxStored + 1),
          candidate_id \in RequestUserIds, llm \in StartLlmOutcomes :
            StartCandidateInterview(p, interview_id, candidate_id, llm)
    \/ \E p \in Procs, request \in AdminInterviewCreateRequests :
            CreateAdminInterview(p, request)
    \/ \E p \in Procs : Return(p)

AdminSpec == AdminInit /\ [][AdminNext]_vars

TypeOK ==
    /\ DOMAIN sessions \subseteq SessionIds
    /\ now \in Clock
    /\ nreq \in 0..MaxRequests
    /\ \A p \in Procs : pc[p] \in
          {"idle", "generate", "score", "add_read",
           "add_upd_write", "refresh", "fin_upd_read", "fin_upd_write",
           "res_score", "done"}

(* ------------------------------ properties ----------------------------- *)
HasEntry(responses, qi) ==
    \E i \in 1..Len(responses) : responses[i].question_index = qi

\* no request is being handled
Quiescent == \A p \in Procs : pc[p] = "idle"

\* slot p has just written the session file in add_session_response
AddWritten(p) == pc[p] = "add_upd_write" /\ pc'[p] = "refresh"

\* C1: current_question of a stored session never decreases, whatever the
\* order of the submitted indices (SubmitResponse(2) then SubmitResponse(0)
\* leaves it at 3).
C1_CurrentQuestionNeverDecreases ==
    [][\A sid \in DOMAIN sessions :
         sessions'[sid].current_question >= sessions[sid].current_question]_vars

\* C2: in every stored session, status = completed exactly when
\* current_question >= len(questions).
C2_CompletedIffAllAsked ==
    \A sid \in DOMAIN sessions :
        (sessions[sid].status = "completed")
            <=> (sessions[sid].current_question
                    >= Len(sessions[sid].questions))

\* C3: once the requests have ended, two submissions for different indices
\* of one session that were both answered 200 both have their response entry
\* in the stored session.
C3_NoLostSubmission ==
    Quiescent =>
        \A a \in acked, b \in acked :
            (a[1] = b[1] /\ a[2] # b[2]) =>
                /\ HasEntry(sessions[a[1]].responses, a[2])
                /\ HasEntry(sessions[a[1]].responses, b[2])

\* C4: a stored session that is completed stays completed.
C4_CompletedIsTerminal ==
    [][\A sid \in DOMAIN sessions :
         sessions[sid].status = "completed"
            => sessions'[sid].status = "completed"]_vars

\* C5: the stored session never holds the response entry of a submission in
\* progress without the current_question update of that submission.
C5_SubmitIsAtomic ==
    \A p \in Procs :
        pc[p] \in {"refresh", "fin_upd_read", "fin_upd_write"} =>
            LET session == sessions[loc[p].sid]
            IN  (\E i \in 1..Len(session.responses) :
                    /\ session.responses[i].question_index = loc[p].qi
                    /\ session.responses[i].transcript_id = loc[p].tid)
                => session.current_question = loc[p].qi + 1

\* C6: a stored session has at most one response entry per question_index,
\* and a submission for an index that already has an entry replaces the
\* transcript reference of that entry without changing len(responses).
C6_OneEntryPerIndex ==
    [][\A sid \in DOMAIN sessions' :
         LET old == IF sid \in DOMAIN sessions
                    THEN sessions[sid].responses ELSE <<>>
             new == sessions'[sid].responses
         IN  /\ \A i, j \in 1..Len(new) :
                   new[i].question_index = new[j].question_index => i = j
             /\ \A p \in Procs :
                   (AddWritten(p) /\ loc[p].sid = sid
                        /\ HasEntry(old, loc[p].qi)) =>
                      /\ Len(new) = Len(old)
                      /\ \E i \in 1..Len(new) :
                            new[i] = [question_index |-> loc[p].qi,
                                      transcript_id  |-> loc[p].tid]]_vars

\* C6 witness: a resubmission has replaced the only entry of the session.
C6_Witness ==
    \E p \in Procs :
        /\ pc[p] = "refresh"
        /\ loc[p].existing_index = 1
        /\ Len(sessions[loc[p].sid].responses) = 1
        /\ sessions[loc[p].sid].responses[1].transcript_id = loc[p].tid
        /\ Cardinality({t \in DOMAIN transcripts : t[1] = loc[p].sid}) >= 2

\* C7: every response entry of a stored session has its question_index in
\* [0, len(questions)).
C7_ResponseIndexInRange ==
    \A sid \in DOMAIN sessions :
        \A i \in 1..Len(sessions[sid].responses) :
            /\ sessions[sid].responses[i].question_index >= 0
            /\ sessions[sid].responses[i].question_index
                  < Len(sessions[sid].questions)

\* C8: 0 <= current_question <= len(questions) in every stored session.
C8_CurrentQuestionInRange ==
    \A sid \in DOMAIN sessions :
        /\ sessions[sid].current_question >= 0
        /\ sessions[sid].current_question <= Len(sessions[sid].questions)

\* C9: a successful GetResults returns one scored entry per question of the
\* session, in ascending question_index order.
C9_ResultsCoverEveryQuestion ==
    \A p \in Procs :
        (resp[p].op = "results" /\ resp[p].code = 200) =>
            /\ Len(resp[p].responses) = resp[p].total_questions
            /\ \A i \in 1..(Len(resp[p].responses) - 1) :
                  resp[p].responses[i].question_index
                      < resp[p].responses[i + 1].question_index

\* C10: GetResults on a stored session that is not completed answers 400,
\* calls the language model for no response and writes nothing to the Store.
C10_ResultsNeedCompletion ==
    [][\A p \in Procs :
         /\ (pc[p] = "idle" /\ pc'[p] = "res_score") =>
               sessions[loc'[p].sid].status = "completed"
         /\ (pc[p] = "idle" /\ resp'[p].op = "results"
                /\ resp'[p].sid \in DOMAIN sessions
                /\ sessions[resp'[p].sid].status # "completed") =>
               /\ resp'[p].code = 400
               /\ resp'[p].calls = 0
               /\ UNCHANGED <<sessions, transcripts>>]_vars

\* C10 witness: results were asked of an active session with a recorded
\* response and refused.
C10_Witness ==
    \E p \in Procs :
        /\ pc[p] = "done"
        /\ resp[p].op = "results"
        /\ resp[p].code = 400
        /\ resp[p].sid \in DOMAIN sessions
        /\ sessions[resp[p].sid].status = "active"
        /\ sessions[resp[p].sid].responses # <<>>

\* slot p has just answered a submit request with an error
SubmitFailed(p) ==
    /\ pc[p] = "idle"
    /\ pc'[p] = "done"
    /\ resp'[p].op = "submit"
    /\ resp'[p].code # 200

\* C11: SubmitResponse for a session_id that does not exist is answered 404,
\* stores no transcript and creates or changes no session.
C11_SubmitUnknownSessionIs404 ==
    [][\A p \in Procs :
         (SubmitFailed(p)
             /\ resp'[p].detail = "Interview session not found") =>
            /\ resp'[p].code = 404
            /\ UNCHANGED <<sessions, transcripts>>]_vars

\* C12: SubmitResponse with a transcript_id that is provided but matches no
\* stored transcript is answered 400 or 422, and the stored sessions are
\* unchanged.
C12_SubmitUnknownTranscriptIs400 ==
    [][\A p \in Procs :
         (SubmitFailed(p)
             /\ resp'[p].detail = "Transcript not found"
             /\ resp'[p].transcript_id # NoTid) =>
            /\ resp'[p].code \in {400, 422}
            /\ UNCHANGED sessions]_vars

\* C13: a SubmitResponse on a completed session changes neither its
\* responses nor its current_question.
C13_CompletedAcceptsNoSubmission ==
    [][\A sid \in DOMAIN sessions :
         sessions[sid].status = "completed" =>
            /\ sessions'[sid].responses = sessions[sid].responses
            /\ sessions'[sid].current_question
                  = sessions[sid].current_question]_vars

\* a store_transcript call has been made by /transcribe
TranscribeStep == nreq' = nreq + 1 /\ pc' = pc

\* C14: every store_transcript call returns an id no earlier call returned,
\* also for the same session and index within one clock second, so a
\* transcript once stored is never overwritten.
C14_TranscriptIdsUnique ==
    [][/\ TranscribeStep => DOMAIN transcripts' # DOMAIN transcripts
       /\ \A tid \in DOMAIN transcripts :
             transcripts'[tid] = transcripts[tid]]_vars

\* the (session, position) pairs of the stored response entries
EntryRefs ==
    { r \in SessionIds \X (1..(MaxQuestions + 2)) :
        /\ r[1] \in DOMAIN sessions
        /\ r[2] <= Len(sessions[r[1]].responses) }

\* C15: each transcript id is referenced by at most one response entry, and
\* a response entry of a session references only a transcript stored for
\* that session.
C15_TranscriptOwnedByOneEntry ==
    /\ \A a \in EntryRefs, b \in EntryRefs :
          sessions[a[1]].responses[a[2]].transcript_id
              = sessions[b[1]].responses[b[2]].transcript_id => a = b
    /\ \A a \in EntryRefs :
          LET tid == sessions[a[1]].responses[a[2]].transcript_id
          IN  HasTranscript(tid) => transcripts[tid].session_id = a[1]

\* slot p has just answered a start request
StartAnswered(p) ==
    /\ pc[p] = "idle"
    /\ pc'[p] = "done"
    /\ resp'[p].op = "start"

\* the non-blank entries of a supplied list, trimmed, in their order
NonBlankTrimmed(questions) ==
    LET kept == SelectSeq(questions, LAMBDA q : Strip(q) # "")
    IN  [i \in 1..Len(kept) |-> Strip(kept[i])]

\* C16: StartInterview whose resulting question list is empty is answered
\* 400 or 422 and persists no session.
C16_StartEmptyListIs422 ==
    [][\A p \in Procs :
         (StartAnswered(p)
             /\ resp'[p].request.questions # <<>>
             /\ NonBlankTrimmed(resp'[p].request.questions) = <<>>) =>
            /\ resp'[p].code \in {400, 422}
            /\ UNCHANGED sessions]_vars

\* C17: StartInterview with a supplied list that has a non-blank entry stores
\* one new session holding exactly the non-blank entries, trimmed, in order,
\* with question_source client, used_fallback false, current_question 0,
\* status active and no responses, and calls no generator or language model.
C17_SuppliedQuestionsVerbatim ==
    [][\A p \in Procs :
         (StartAnswered(p)
             /\ NonBlankTrimmed(resp'[p].request.questions) # <<>>) =>
            /\ resp'[p].code = 200
            /\ resp'[p].llm_calls = 0
            /\ resp'[p].session_id \notin DOMAIN sessions
            /\ DOMAIN sessions' = DOMAIN sessions \cup {resp'[p].session_id}
            /\ \A sid \in DOMAIN sessions : sessions'[sid] = sessions[sid]
            /\ sessions'[resp'[p].session_id] =
                  [questions        |->
                       NonBlankTrimmed(resp'[p].request.questions),
                   current_question |-> 0,
                   status           |-> "active",
                   question_source  |-> "client",
                   used_fallback    |-> FALSE,
                   responses        |-> <<>>]]_vars

\* C17 witness: a session was started from a supplied list with a blank and
\* an untrimmed entry.
C17_Witness ==
    \E p \in Procs :
        /\ pc[p] = "done"
        /\ resp[p].op = "start"
        /\ resp[p].code = 200
        /\ resp[p].request.questions = <<" Q1? ", "  ", "Q2?">>
        /\ sessions[resp[p].session_id].questions = <<"Q1?", "Q2?">>
        /\ sessions[resp[p].session_id].question_source = "client"

\* slot p holds the answer to a /generate request
Generated(p) == resp[p].op = "generate"

\* C18: for num_questions > 0, Generate returns exactly min(num_questions,
\* 20) questions, on the language model path as on the fallback path.
C18_GenerateExactCount ==
    \A p \in Procs :
        (Generated(p) /\ resp[p].code = 200
            /\ resp[p].request.num_questions > 0) =>
           Len(resp[p].questions) =
              (IF resp[p].request.num_questions < 20
               THEN resp[p].request.num_questions ELSE 20)

\* C19: every question Generate returns ends in "?".
C19_QuestionsEndInQuestionMark ==
    \A p \in Procs :
        (Generated(p) /\ resp[p].code = 200) =>
           \A i \in 1..Len(resp[p].questions) :
               EndsWith(resp[p].questions[i], "?")

\* C20: Generate with num_questions <= 0 is answered 400 or 422 and returns
\* no questions.
C20_NonPositiveCountRejected ==
    \A p \in Procs :
        (Generated(p) /\ resp[p].request.num_questions <= 0) =>
           /\ resp[p].code \in {400, 422}
           /\ resp[p].questions = <<>>

\* the request passes the input validation of lines 233-238
GenerateValidated(request) ==
    /\ request.num_questions > 0
    /\ (request.job_role # "" \/ request.job_description # ""
           \/ request.messages # <<>>)

\* the language model call failed or its reply parsed to no question
GatewayFailed(request, llm) ==
    \/ llm.kind # "ok"
    \/ ExtractQuestionsFromText(llm.content,
            DesiredQuestionCount(request.num_questions)) = <<>>

\* C21: a validated Generate request whose language model call fails
\* (exception, timeout, non-200) or parses to nothing is answered 200 with
\* source = fallback, used_fallback = true and fallback questions; the
\* failure is never an error response.
C21_GatewayFailureFallsBack ==
    \A p \in Procs :
        (Generated(p) /\ GenerateValidated(resp[p].request)
            /\ GatewayFailed(resp[p].request, resp[p].llm)) =>
           /\ resp[p].code = 200
           /\ resp[p].source = "fallback"
           /\ resp[p].used_fallback
           /\ resp[p].questions # <<>>

\* slot p holds a 200 answer of GetResults
ResultsAnswered(p) == resp[p].op = "results" /\ resp[p].code = 200

\* the word-count bands, in tenths of a point
WordBand(words) ==
    CASE words < 5   -> 20
      [] words >= 5  /\ words < 20  -> 40
      [] words >= 20 /\ words < 50  -> 60
      [] words >= 50 /\ words < 100 -> 80
      [] OTHER -> 90

\* C22: in GetResults, when the language model call for a question fails
\* (exception, timeout or non-200 status) the score of that entry is the
\* word-count band of its transcript: 2, 4, 6, 8 or 9.
C22_GatewayFailureScoresByBand ==
    \A p \in Procs :
        ResultsAnswered(p) =>
           \A i \in 1..Len(resp[p].responses) :
               resp[p].gateway[i] \in {"exception", "non200"} =>
                  resp[p].responses[i].score =
                     WordBand(WordCount(ShownTranscript(
                                 resp[p].responses[i].transcript)))

\* slot p holds the answer to a /scoring/score request for which the
\* language model was called
Scored(p) == resp[p].op = "score" /\ resp[p].gateway.kind # "none"

\* C23: on every scoring path a failure or timeout of the language model
\* call is answered with a fallback score, never with an error response:
\* no answer of GetResults or /scoring/score carries a gateway status (503,
\* 504), and /scoring/score answers 200 when its call failed.
C23_ScoringFailureNeverSurfaced ==
    \A p \in Procs :
        /\ resp[p].op \in {"results", "score"} =>
               resp[p].code \notin {503, 504}
        /\ (Scored(p) /\ resp[p].gateway.kind # "ok") =>
               resp[p].code = 200

\* C24: every per-question score a client receives is within 1..10 points:
\* the score of each GetResults entry (in tenths) and the final_score of
\* /scoring/score (in sixths), whatever the language model returned.
C24_ScoresWithinOneToTen ==
    \A p \in Procs :
        /\ ResultsAnswered(p) =>
               \A i \in 1..Len(resp[p].responses) :
                   resp[p].responses[i].score \in 10..100
        /\ (Scored(p) /\ resp[p].code = 200) =>
               resp[p].final_score \in ScoreUnit..(10 * ScoreUnit)

\* the last line of an evaluation text that carries the label, 0 for none
RECURSIVE LastLineWith(_, _)
LastLineWith(text, label) ==
    IF text = <<>> THEN 0
    ELSE IF text[Len(text)].label = label THEN Len(text)
    ELSE LastLineWith(SubSeq(text, 1, Len(text) - 1), label)

\* the value the text states under the label, or the given one when the
\* text has no such line
StatedOr(text, label, recomputed) ==
    IF LastLineWith(text, label) = 0 THEN recomputed
    ELSE ExtractScore(text[LastLineWith(text, label)])

\* C25: parse_evaluation_scores keeps the Linguistic Avg, Behavioral Avg and
\* Final Score the text states, a stated 0 included, and recomputes one only
\* when its line is absent: the averages as the mean of their three
\* sub-scores, the final score as half of each average.
C25_StatedAveragesAreKept ==
    \A p \in Procs :
        (Scored(p) /\ resp[p].code = 200) =>
           LET text == resp[p].gateway.text
               d    == resp[p].detailed_scores
           IN  /\ d.linguistic_avg =
                     StatedOr(text, "Linguistic Avg:",
                        (d.clarity_structure + d.grammar_vocabulary
                            + d.conciseness_relevance) \div 3)
               /\ d.behavioral_avg =
                     StatedOr(text, "Behavioral Avg:",
                        (d.professionalism + d.confidence_delivery
                            + d.engagement_adaptability) \div 3)
               /\ d.final_score =
                     StatedOr(text, "Final Score:",
                        (d.linguistic_avg + d.behavioral_avg) \div 2)

\* slot p holds the 200 answer to a submission sent without a transcript_id
SkipAnswered(p) ==
    /\ resp[p].op = "submit"
    /\ resp[p].code = 200
    /\ resp[p].request.transcript_id = NoTid

\* C26: after a submission without transcript_id has been answered, the
\* transcript store holds a transcript for that session and index whose text
\* is "[Question was skipped by the candidate]", and the session's response
\* entry for the submitted index refers to it.
C26_SkipStoresSentinelTranscript ==
    \A p \in Procs :
        SkipAnswered(p) =>
           LET tid == resp[p].transcript_id
           IN  /\ HasTranscript(tid)
               /\ transcripts[tid] =
                     [session_id |-> resp[p].sid,
                      question_index |-> resp[p].qi,
                      transcript |-> "[Question was skipped by the candidate]"]
               /\ resp[p].transcript =
                     "[Question was skipped by the candidate]"
               /\ \E i \in 1..Len(sessions[resp[p].sid].responses) :
                     sessions[resp[p].sid].responses[i] =
                        [question_index |-> resp[p].qi,
                         transcript_id  |-> tid]

\* a skipped question has been answered 200 for a session that already had
\* a transcribed answer stored
C26_Witness ==
    \E p \in Procs :
        /\ SkipAnswered(p)
        /\ \E t \in DOMAIN transcripts :
              transcripts[t].transcript \in TranscribedTexts

\* the fallback question of position pos (counted from 0) for the role
\* phrase and the keyword list K
FallbackQuestionAt(pos, role_phrase, K) ==
    LET keyword == K[(pos % Len(K)) + 1]
    IN  IF pos < 7 THEN TemplatesKeyword(keyword, role_phrase)[pos + 1]
        ELSE IF pos < 12 THEN TemplatesGeneral(role_phrase)[pos - 7 + 1]
        ELSE "What best practices have you developed around "
                \o keyword \o "?"

\* slot p holds a fallback payload of /generate for a request that names
\* how many questions it wants
FellBack(p) ==
    /\ Generated(p)
    /\ resp[p].code = 200
    /\ resp[p].source = "fallback"
    /\ resp[p].request.num_questions >= 1

\* C27: fallback generation returns exactly n = min(num_questions, 20)
\* questions; position pos holds the pos-th keyword template with keyword
\* K[pos mod |K|] for pos < 7, the (pos-7)-th role-only template for
\* 7 <= pos < 12, and the filler question with K[pos mod |K|] from 12 on;
\* the list depends on job_description, job_role and n only.
C27_FallbackQuestionsByPosition ==
    \A p \in Procs :
        FellBack(p) =>
           LET request == resp[p].request
               n == IF request.num_questions < 20
                    THEN request.num_questions ELSE 20
               role_phrase == IF request.job_role # ""
                              THEN request.job_role ELSE "this role"
               K == LocalKeywords(request.job_description, request.job_role)
           IN  /\ Len(resp[p].questions) = n
               /\ \A pos \in 0..(n - 1) :
                     resp[p].questions[pos + 1] =
                        FallbackQuestionAt(pos, role_phrase, K)

\* a fallback list long enough to reach the filler questions, built from
\* two keywords
C27_Witness ==
    \E p \in Procs :
        /\ FellBack(p)
        /\ resp[p].request.job_description = "python and sql"
        /\ Len(resp[p].questions) = 20
        /\ resp[p].questions[14] =
              "What best practices have you developed around sql?"

\* the stored session holds the entries of indices 0..qi in this order and
\* still shows qi as its current question: indices 0..qi-1 were submitted in
\* order and answered, and the entry of index qi has just been written
InOrderUpTo(sid, qi) ==
    /\ HasSession(sid)
    /\ qi >= 0
    /\ qi < Len(sessions[sid].questions)
    /\ sessions[sid].status = "active"
    /\ sessions[sid].current_question = qi
    /\ Len(sessions[sid].responses) = qi + 1
    /\ \A i \in 1..(qi + 1) :
          sessions[sid].responses[i].question_index = i - 1

\* C28: when indices 0, 1, ..., N-1 are submitted in order, one request at a
\* time, each answered 200, the stored session has current_question = k and
\* k entries after the k-th answer, is active for k < N and completed for
\* k = N, so that GetResults is then allowed.
C28_InOrderRunCompletes ==
    [][\A p \in Procs :
          (pc[p] = "fin_upd_write" /\ pc'[p] = "done"
              /\ InOrderUpTo(loc[p].sid, loc[p].qi)
              /\ resp'[p].code = 200) =>
             LET session == sessions'[loc[p].sid]
                 k == loc[p].qi + 1
             IN  /\ session.current_question = k
                 /\ Len(session.responses) = k
                 /\ session.status = IF k < Len(session.questions)
                                     THEN "active" ELSE "completed"
                 /\ (k = Len(session.questions)) => ResultsMayScore(session)
      ]_vars

\* slot p answers a start_candidate_interview request in this step
CandidateStartStep(p) ==
    pc[p] = "idle" /\ pc'[p] = "done" /\ resp'[p].op = "candidate_start"

\* the caller is a candidate without a result for the interview, and the
\* interview exists, is active and lists the caller
MayStartCandidateInterview(interview_id, candidate_id) ==
    /\ candidate_id \in DOMAIN db.users
    /\ db.users[candidate_id].role = "candidate"
    /\ ~\E result \in db.results :
           /\ result.candidate_id = candidate_id
           /\ result.interview_id = interview_id
    /\ \E i \in 1..Len(db.interviews) :
           /\ db.interviews[i].id = interview_id
           /\ db.interviews[i].active
           /\ \E k \in 1..Len(db.interviews[i].allowed_candidate_ids) :
                 db.interviews[i].allowed_candidate_ids[k] = candidate_id

\* C29: start_candidate_interview creates a session only when the caller is
\* a candidate with no result record for the interview and the interview
\* exists, is active and lists the candidate; otherwise it answers 400, 404
\* or 403 and the session store is left as it was.
C29_CandidateStartIsGuarded ==
    [][\A p \in Procs :
          CandidateStartStep(p) =>
             LET request == resp'[p].request
                 may == MayStartCandidateInterview(request.interview_id,
                                                   request.candidate_id)
             IN  /\ (sessions' # sessions) => may
                 /\ ~may => /\ resp'[p].code \in {400, 404, 403}
                            /\ sessions' = sessions
      ]_vars

\* a candidate has started an allowed interview, and the new session carries
\* the candidate and the interview
C29_Witness ==
    \E p \in Procs :
        /\ resp[p].op = "candidate_start"
        /\ resp[p].code = 200
        /\ HasSession(resp[p].session_id)
        /\ sessions[resp[p].session_id].candidate_id = "u-cand"
        /\ sessions[resp[p].session_id].interview_id =
              resp[p].request.interview_id
        /\ sessions[resp[p].session_id].questions = <<"Q1?">>

\* slot p answers a create_admin_interview request of an admin in this step
AdminCreateStep(p) ==
    /\ pc[p] = "idle" /\ pc'[p] = "done"
    /\ resp'[p].op = "create_interview"
    /\ resp'[p].request.admin_id \in DOMAIN db.users
    /\ db.users[resp'[p].request.admin_id].role = "admin"

\* C30: create_admin_interview by an admin appends exactly one interview,
\* whose id no stored interview had, keeps the stored interviews as they
\* were, and hands save_interviews a list of pairwise distinct ids.
C30_CreateAddsOneInterview ==
    [][\A p \in Procs :
          AdminCreateStep(p) =>
             /\ Len(db'.interviews) = Len(db.interviews) + 1
             /\ SubSeq(db'.interviews, 1, Len(db.interviews)) = db.interviews
             /\ \A i \in 1..Len(db.interviews) :
                   db.interviews[i].id # db'.interviews[Len(db'.interviews)].id
             /\ \A i, j \in 1..Len(resp'[p].saved) :
                   resp'[p].saved[i].id = resp'[p].saved[j].id => i = j
      ]_vars

====
